---- MODULE Spec2Model ----
(***************************************************************************)
(* Model of the Gemini Imagen proxy (src/proxy.ts, the variant with proxy  *)
(* authentication, lines 247-483): the Semaphore, the least-used key       *)
(* rotation, the retry loop of generateWithRetry and the request           *)
(* lifecycle of handleRequest.                                             *)
(*                                                                         *)
(* The program runs on a single-threaded event loop: the code between two  *)
(* awaits is one atomic step.  Each action below is one such stretch of    *)
(* code of one request.                                                    *)
(***************************************************************************)
EXTENDS Integers, Sequences, FiniteSets, TLC

\* ---------------------------------------------------------------- bounds
\* Number of inbound requests the environment sends.
NumReq == 3
\* Largest number of configured upstream keys (GEMINI_API_KEYS).
NumKeys == 2
\* Largest configured MAX_CONCURRENT.
MaxPermits == 2
\* Largest configured MAX_RETRIES.
MaxRetriesBound == 3
\* The most upstream calls the requests of one run can make together:
\* request r arrives only when r * maxRetries fits.
MaxCalls == 6
\* The count at which adding 1 to a usage count no longer changes it; it
\* stands for 2^53, where a JavaScript number stops growing by 1.
MaxCount == 16
\* Largest length of a key list that repeats a key (SpecLoop).
MaxListLen == 2
\* Number of requests that arrive in SpecLoop.
LoopReqs == 2

\* config.retryDelay: the RETRY_DELAY default, milliseconds.
retryDelay == 1000

Reqs == 1..NumReq

\* ------------------------------------------------------------ the inputs
Methods == {"OPTIONS", "GET", "POST"}
GenPath == "/v1/images/generations"
Paths == {GenPath, "/other"}
\* An Authorization header, as the result of authHeader.split(" "); the
\* empty sequence is the absent header.
GoodToken == "tok"
AuthHeaders == {<< >>, <<"Basic", GoodToken>>, <<"Bearer", "bad">>, <<"Bearer", GoodToken>>}
\* A request body: whether it parses as JSON and the fields it carries.
\* The complete body carries, with model and prompt, the field seed that
\* the upstream API does not support and the pass-through field size; what
\* the handler does with a body depends on model and prompt alone.
Bodies ==
    {[json |-> TRUE, fields |-> f] :
        f \in {{"model", "prompt", "seed", "size"}, {"prompt", "seed"}, {"model"}}}
    \cup {[json |-> FALSE, fields |-> {}]}
Unread == [json |-> FALSE, fields |-> {"unread"}]
FullBody == [json |-> TRUE, fields |-> {"model", "prompt", "seed", "size"}]
\* What one upstream call can end in: an HTTP status, or 0 when fetch
\* itself rejects (transport failure).
UpstreamOutcomes == {0, 200, 400, 401, 403, 429, 500}

\* lastStatus before the first upstream outcome.
NoStatus == 0 - 1
NoError == [message |-> "none", status |-> 0]
NoResponse == [status |-> 0, type |-> "none", message |-> "none"]
NoRequest == [method |-> "none", auth |-> << >>, path |-> "none"]
\* outbound while no fetch of the request is in flight.
NoFetch == {"none"}
\* served once an upstream call has failed.
Broken == <<0>>

VARIABLES
    geminiApiKeys,   \* config.geminiApiKeys: the ordered key list
    proxyAuthKeys,   \* config.proxyAuthKeys
    maxRetries,      \* config.maxRetries
    maxConcurrent,   \* config.maxConcurrent
    keyUsageCount,   \* GeminiImageProxy.keyUsageCount
    permits,         \* Semaphore.permits
    waiting,         \* Semaphore.waiting, as the requests whose resolve is queued
    pc,              \* where each request's handler is suspended
    req,             \* the inbound Request, while the handler reads it
    imageRequest,    \* the parsed body of the request
    attempt,         \* generateWithRetry: attempt
    usedKeys,        \* generateWithRetry: usedKeys
    apiKey,          \* generateWithRetry: apiKey
    lastError,       \* generateWithRetry: lastError
    sleepMs,         \* the delay of the pending sleep()
    outbound,        \* the fields of the body of the fetch in flight
    resp,            \* the Response handleRequest returned
    calls,           \* history: the keys of the upstream calls of the request
    delays,          \* history: the delays the request slept, each with
                     \* whether it followed a 429
    lastStatus,      \* history: the outcome of the request's latest upstream call
    rejected,        \* history: the keys an upstream call answered 400 or 403
    observed,        \* whether this run keeps the history rejected
    served,          \* history: the keys of the upstream calls so far, in the
                     \* order issued, while no upstream call has failed
    acquired,        \* history: completed acquire() calls of the request
    released         \* history: release() calls of the request

config == <<geminiApiKeys, proxyAuthKeys, maxRetries, maxConcurrent>>
shared == <<keyUsageCount, permits, waiting>>
locals == <<pc, req, imageRequest, attempt, usedKeys, apiKey, lastError, sleepMs, outbound,
            resp>>
history == <<calls, delays, lastStatus, rejected, observed, served, acquired, released>>
vars == <<config, shared, locals, history>>

\* ------------------------------------------------------------- Semaphore
\* Mutant of SemAcquire: the permit is taken without the permits > 0 test.
SemAcquireNoCheck(p) == [permits |-> p - 1, granted |-> TRUE]

\* Mutant of SemAcquire: the permits-- of the granted call is missing.
SemAcquireKeepsPermit(p) ==
    IF p > 0 THEN [permits |-> p, granted |-> TRUE]
             ELSE [permits |-> p, granted |-> FALSE]

\* Semaphore.acquire: the permit count after the call and whether the call
\* returned at once (otherwise resolve is pushed on waiting).
SemAcquire(p) ==
    IF p > 0 THEN [permits |-> p - 1, granted |-> TRUE]
             ELSE [permits |-> p, granted |-> FALSE]

\* Mutant of SemRelease: without a waiter the permit is not given back.
SemReleaseLeak(p, w) ==
    IF Len(w) > 0
    THEN [permits |-> (p + 1) - 1, waiting |-> Tail(w), woken |-> Head(w)]
    ELSE [permits |-> p, waiting |-> w, woken |-> 0]

\* Mutant of SemRelease: the permit goes back to the pool and the waiter is
\* woken as well (the permits-- of the hand-off is missing).
SemReleaseToPool(p, w) ==
    IF Len(w) > 0
    THEN [permits |-> p + 1, waiting |-> Tail(w), woken |-> Head(w)]
    ELSE [permits |-> p + 1, waiting |-> w, woken |-> 0]

\* Semaphore.release: permits++, then with a waiter permits-- and the first
\* waiter's resolve is called (woken is that waiter, 0 for none).
SemRelease(p, w) ==
    IF Len(w) > 0
    THEN [permits |-> (p + 1) - 1, waiting |-> Tail(w), woken |-> Head(w)]
    ELSE [permits |-> p + 1, waiting |-> w, woken |-> 0]

\* ------------------------------------------------------------ isAuthorized
\* Mutant of isAuthorized: the scheme of the header is not compared.
isAuthorizedAnyScheme(authKeys, header) ==
    IF authKeys = {} THEN "ok"
    ELSE IF Len(header) = 0 THEN "Authorization header is missing."
    ELSE IF Len(header) < 2
         THEN "Authorization header must be in 'Bearer <token>' format."
    ELSE IF header[2] \notin authKeys THEN "Invalid authorization token."
    ELSE "ok"

\* "ok" or the message of the 401 response.
isAuthorized(authKeys, header) ==
    IF authKeys = {} THEN "ok"
    ELSE IF Len(header) = 0 THEN "Authorization header is missing."
    ELSE IF header[1] # "Bearer" \/ Len(header) < 2
         THEN "Authorization header must be in 'Bearer <token>' format."
    ELSE IF header[2] \notin authKeys THEN "Invalid authorization token."
    ELSE "ok"

\* ----------------------------------------------------------- getNextApiKey
\* Mutant of ScanKeys: a later key with the same usage replaces the
\* selection (<= for <).
RECURSIVE ScanKeysLastTie(_, _, _, _, _)
ScanKeysLastTie(keys, usage, i, selectedKey, minUsage) ==
    IF i > Len(keys) THEN [key |-> selectedKey, min |-> minUsage]
    ELSE IF usage[keys[i]] <= minUsage
         THEN ScanKeysLastTie(keys, usage, i + 1, keys[i], usage[keys[i]])
         ELSE ScanKeysLastTie(keys, usage, i + 1, selectedKey, minUsage)

\* The scan of the for loop from index i on, with the current selection.
RECURSIVE ScanKeys(_, _, _, _, _)
ScanKeys(keys, usage, i, selectedKey, minUsage) ==
    IF i > Len(keys) THEN [key |-> selectedKey, min |-> minUsage]
    ELSE IF usage[keys[i]] < minUsage
         THEN ScanKeys(keys, usage, i + 1, keys[i], usage[keys[i]])
         ELSE ScanKeys(keys, usage, i + 1, selectedKey, minUsage)

\* Mutant of getNextApiKey: the write of the new count (line 327) is
\* missing.
getNextApiKeyNoCount(keys, usage) ==
    LET s == ScanKeys(keys, usage, 1, keys[1], usage[keys[1]])
    IN  [key |-> s.key, usage |-> usage]

\* minUsage + 1 in the arithmetic of JavaScript numbers.
PlusOne(n) == IF n >= MaxCount THEN n ELSE n + 1

getNextApiKey(keys, usage) ==
    LET s == ScanKeys(keys, usage, 1, keys[1], usage[keys[1]])
    IN  [key |-> s.key, usage |-> [usage EXCEPT ![s.key] = PlusOne(s.min)]]

\* ------------------------------------------ generateWithRetry: key choice
\* Mutant of Reselect: the while loop is missing, the key first selected
\* is taken.
ReselectNever(keys, usage, used, key) ==
    [key |-> key, usage |-> usage, used |-> used \cup {key}]

\* The while loop of line 389: select again while the key was used by this
\* request and the used set is smaller than the key list.
RECURSIVE Reselect(_, _, _, _)
Reselect(keys, usage, used, key) ==
    IF key \in used /\ Cardinality(used) < Len(keys)
    THEN LET n == getNextApiKey(keys, usage)
         IN  Reselect(keys, n.usage, used, n.key)
    ELSE [key |-> key, usage |-> usage, used |-> used \cup {key}]

\* Mutant of SelectKey: the rotation is asked twice for the first key of
\* the attempt and the first answer is dropped.
SelectKeyTwice(keys, usage, used) ==
    LET n == getNextApiKey(keys, getNextApiKey(keys, usage).usage)
        u == IF Cardinality(used) >= Len(keys) THEN {} ELSE used
    IN  Reselect(keys, n.usage, u, n.key)

\* Lines 387-392.
SelectKey(keys, usage, used) ==
    LET n == getNextApiKey(keys, usage)
        u == IF Cardinality(used) >= Len(keys) THEN {} ELSE used
    IN  Reselect(keys, n.usage, u, n.key)

\* ------------------------------------------------ generateImage: request
\* Mutant of generateImage: the copy is forwarded with its seed (the body
\* of the file's first generateImage, lines 86-94).
generateImageKeepsSeed(originalRequest) ==
    [sent |-> originalRequest.fields \cup {"model", "response_format"},
     original |-> originalRequest]

\* Lines 345-359: the fields of the body sent upstream, built on a copy of
\* the request (seed deleted, model mapped, response_format defaulted), and
\* the request object as the call leaves it.
generateImage(originalRequest) ==
    [sent |-> (originalRequest.fields \ {"seed"}) \cup {"model", "response_format"},
     original |-> originalRequest]

\* ------------------------------------------------ generateImage: outcome
\* The error generateImage throws for a response that is not ok
\* (lines 370-377); status 0 is fetch rejecting.
Classify(status) ==
    IF status = 0 THEN [message |-> "fetch failed", status |-> 0]
    ELSE IF status = 429 THEN [message |-> "RATE_LIMITED", status |-> 429]
    ELSE IF status = 401 THEN [message |-> "INVALID_API_KEY", status |-> 401]
    ELSE IF status >= 500 THEN [message |-> "SERVER_ERROR", status |-> status]
    ELSE [message |-> "UPSTREAM_API_ERROR", status |-> status]

ResponseOk(status) == status >= 200 /\ status <= 299

\* Mutant of LoopContinues: one iteration too many.
LoopContinuesOffByOne(a, retries) == a <= retries

\* The condition of the for loop (line 386).
LoopContinues(a, retries) == a < retries

\* Mutant of BackoffDelay: the delay after a 429 does not grow.
BackoffDelayFlat(err, att, retries, base) ==
    IF err.message = "RATE_LIMITED" THEN base
    ELSE IF att < retries - 1 THEN base
    ELSE 0 - 1

\* Mutant of BackoffDelay: every failure is followed by the growing delay.
BackoffDelayAllExponential(err, att, retries, base) ==
    IF err.message = "RATE_LIMITED" THEN base * (2 ^ att)
    ELSE IF att < retries - 1 THEN base * (2 ^ att)
    ELSE 0 - 1

\* Mutant of BackoffDelay: the flat delay is slept after the last attempt
\* too.
BackoffDelayWaitsOnLast(err, att, retries, base) ==
    IF err.message = "RATE_LIMITED" THEN base * (2 ^ att)
    ELSE base

\* generateWithRetry's catch block (lines 402-408): the delay slept after
\* a failed attempt, -1 when it does not sleep.
BackoffDelay(err, att, retries, base) ==
    IF err.message = "RATE_LIMITED" THEN base * (2 ^ att)
    ELSE IF att < retries - 1 THEN base
    ELSE 0 - 1

\* handleRequest's catch block (lines 445-447).
ErrorResponse(err) ==
    [status |-> IF err.message = "UPSTREAM_API_ERROR" THEN 400 ELSE 500,
     type |-> "api_error",
     message |-> err.message]

\* ------------------------------------------------------------------ Init
KeySet(keys) == {keys[i] : i \in 1..Len(keys)}

\* The key lists without a repeated key.
DistinctKeyLists == {[i \in 1..n |-> i] : n \in 1..NumKeys}
\* The key lists up to MaxListLen, with and without repeated keys: the
\* constructor splits GEMINI_API_KEYS at the commas and drops no repetition.
AnyKeyLists == UNION {[1..n -> 1..NumKeys] : n \in 1..MaxListLen}

\* The state after the constructor (lines 273-302): a non-empty key list
\* among keyLists, every key with usage 0, a Semaphore of maxConcurrent
\* permits.  obs says whether the run records the keys that were answered
\* 400 or 403.
Start(obs, keyLists) ==
    /\ observed = obs
    /\ geminiApiKeys \in keyLists
    /\ proxyAuthKeys \in {{}, {GoodToken}}
    /\ maxRetries \in 0..MaxRetriesBound
    /\ maxConcurrent \in 1..MaxPermits
    /\ keyUsageCount = [k \in KeySet(geminiApiKeys) |-> 0]
    /\ permits = maxConcurrent
    /\ waiting = << >>
    /\ pc = [r \in Reqs |-> "idle"]
    /\ req = [r \in Reqs |-> NoRequest]
    /\ imageRequest = [r \in Reqs |-> Unread]
    /\ attempt = [r \in Reqs |-> 0]
    /\ usedKeys = [r \in Reqs |-> {}]
    /\ apiKey = [r \in Reqs |-> 0]
    /\ lastError = [r \in Reqs |-> NoError]
    /\ sleepMs = [r \in Reqs |-> 0]
    /\ outbound = [r \in Reqs |-> NoFetch]
    /\ resp = [r \in Reqs |-> NoResponse]
    /\ calls = [r \in Reqs |-> << >>]
    /\ delays = [r \in Reqs |-> << >>]
    /\ lastStatus = [r \in Reqs |-> NoStatus]
    /\ rejected = {}
    /\ served = << >>
    /\ acquired = [r \in Reqs |-> 0]
    /\ released = [r \in Reqs |-> 0]

\* Spec and SpecObserved take the key lists without a repeated key, for
\* which the while loop of line 389 ends within the step that enters it;
\* SpecLoop follows that loop call by call and takes every key list.
Init == Start(FALSE, DistinctKeyLists)
InitObserved == Start(TRUE, DistinctKeyLists)

\* --------------------------------------------------------- handleRequest
\* Mutant of Route: the method and path are matched before the
\* Authorization header is checked.
RoutePathFirst(rq, authKeys) ==
    IF rq.method = "OPTIONS"
    THEN [status |-> 204, type |-> "none", message |-> "none"]
    ELSE IF rq.method # "POST" \/ rq.path # GenPath
    THEN [status |-> 404, type |-> "invalid_request_error", message |-> "Not Found"]
    ELSE IF isAuthorized(authKeys, rq.auth) # "ok"
    THEN [status |-> 401, type |-> "auth_error", message |-> isAuthorized(authKeys, rq.auth)]
    ELSE [status |-> 0, type |-> "parse", message |-> "none"]

\* The synchronous head of handleRequest (lines 415-428): what it answers
\* at once, type "parse" when it goes on to read the body.
Route(rq, authKeys) ==
    IF rq.method = "OPTIONS"
    THEN [status |-> 204, type |-> "none", message |-> "none"]
    ELSE IF isAuthorized(authKeys, rq.auth) # "ok"
    THEN [status |-> 401, type |-> "auth_error", message |-> isAuthorized(authKeys, rq.auth)]
    ELSE IF rq.method # "POST" \/ rq.path # GenPath
    THEN [status |-> 404, type |-> "invalid_request_error", message |-> "Not Found"]
    ELSE [status |-> 0, type |-> "parse", message |-> "none"]

\* Mutant of MissingFields: only model is required.
MissingFieldsModelOnly(body) == "model" \notin body.fields

\* The presence check of line 432.
MissingFields(body) == "model" \notin body.fields \/ "prompt" \notin body.fields

\* No handler has returned a response that is not yet delivered.
NoneDone == \A q \in Reqs : pc[q] # "done"

\* A request arrives (lines 415-428); requests are numbered in the order
\* of arrival.
Arrive(r) ==
    /\ pc[r] = "idle"
    /\ \A q \in Reqs : q < r => pc[q] # "idle"
    /\ r * maxRetries <= MaxCalls
    /\ NoneDone
    /\ \E m \in Methods, h \in AuthHeaders, p \in Paths :
        LET rq == [method |-> m, auth |-> h, path |-> p]
            out == Route(rq, proxyAuthKeys)
        IN  /\ req' = [req EXCEPT ![r] = rq]
            /\ IF out.type = "parse"
               THEN /\ pc' = [pc EXCEPT ![r] = "parsing"]
                    /\ resp' = resp
               ELSE /\ pc' = [pc EXCEPT ![r] = "done"]
                    /\ resp' = [resp EXCEPT ![r] = out]
    /\ UNCHANGED <<config, shared, imageRequest, attempt, usedKeys, apiKey, lastError,
                   sleepMs, outbound, history>>

\* request.json() resolves or rejects (lines 431-436): the presence check,
\* then semaphore.acquire().  The Request object is not read again.
ParseBody(r) ==
    /\ pc[r] = "parsing"
    /\ NoneDone
    /\ \E b \in Bodies :
        /\ imageRequest' = [imageRequest EXCEPT ![r] = b]
        /\ IF ~b.json
           THEN /\ pc' = [pc EXCEPT ![r] = "done"]
                /\ resp' = [resp EXCEPT ![r] =
                        ErrorResponse([message |-> "SyntaxError", status |-> 0])]
                /\ UNCHANGED <<req, permits, waiting, acquired>>
           ELSE IF MissingFields(b)
           THEN /\ pc' = [pc EXCEPT ![r] = "done"]
                /\ resp' = [resp EXCEPT ![r] =
                        [status |-> 400, type |-> "invalid_request_error",
                         message |-> "Missing required fields: model and prompt"]]
                /\ UNCHANGED <<req, permits, waiting, acquired>>
           ELSE LET s == SemAcquire(permits)
                IN  /\ permits' = s.permits
                    /\ resp' = resp
                    /\ req' = [req EXCEPT ![r] = NoRequest]
                    /\ IF s.granted
                       THEN /\ pc' = [pc EXCEPT ![r] = "acquired"]
                            /\ waiting' = waiting
                            /\ acquired' = [acquired EXCEPT ![r] = @ + 1]
                       ELSE /\ pc' = [pc EXCEPT ![r] = "waiting"]
                            /\ waiting' = Append(waiting, r)
                            /\ acquired' = acquired
    /\ UNCHANGED <<config, keyUsageCount, attempt, usedKeys, apiKey, lastError, sleepMs,
                   outbound, calls, delays, lastStatus, rejected, observed, served, released>>

\* The finally block and the return of handleRequest (lines 439-447):
\* release(), which resolves the first waiter's acquire(), and the response.
\* The locals of generateWithRetry go out of scope.
Finish(r, response) ==
    LET s == SemRelease(permits, waiting)
    IN  /\ permits' = s.permits
        /\ waiting' = s.waiting
        /\ pc' = [q \in Reqs |-> IF q = r THEN "done"
                                  ELSE IF q = s.woken THEN "acquired" ELSE pc[q]]
        /\ acquired' = [q \in Reqs |-> IF q = s.woken THEN acquired[q] + 1 ELSE acquired[q]]
        /\ released' = [released EXCEPT ![r] = @ + 1]
        /\ resp' = [resp EXCEPT ![r] = response]
        /\ attempt' = [attempt EXCEPT ![r] = 0]
        /\ usedKeys' = [usedKeys EXCEPT ![r] = {}]
        /\ apiKey' = [apiKey EXCEPT ![r] = 0]
        /\ lastError' = [lastError EXCEPT ![r] = NoError]
        /\ sleepMs' = [sleepMs EXCEPT ![r] = 0]
        /\ outbound' = [outbound EXCEPT ![r] = NoFetch]
        /\ UNCHANGED <<keyUsageCount, calls, imageRequest>>

\* The head of the for loop of generateWithRetry with attempt = a and
\* lastError = err (lines 386-396, 411): the key choice and the fetch of
\* generateImage, or the throw after the loop.
LoopHead(r, a, err) ==
    IF LoopContinues(a, maxRetries)
    THEN LET sel == SelectKey(geminiApiKeys, keyUsageCount, usedKeys[r])
             g == generateImage(imageRequest[r])
         IN  /\ keyUsageCount' = sel.usage
             /\ outbound' = [outbound EXCEPT ![r] = g.sent]
             /\ imageRequest' = [imageRequest EXCEPT ![r] = g.original]
             /\ usedKeys' = [usedKeys EXCEPT ![r] = sel.used]
             /\ apiKey' = [apiKey EXCEPT ![r] = sel.key]
             /\ attempt' = [attempt EXCEPT ![r] = a]
             /\ lastError' = [lastError EXCEPT ![r] = err]
             /\ sleepMs' = [sleepMs EXCEPT ![r] = 0]
             /\ pc' = [pc EXCEPT ![r] = "calling"]
             /\ calls' = [calls EXCEPT ![r] = Append(@, sel.key)]
             /\ served' = IF err # NoError \/ served = Broken
                           THEN Broken
                           ELSE Append(served, sel.key)
             /\ UNCHANGED <<permits, waiting, resp, acquired, released>>
    ELSE /\ Finish(r, ErrorResponse(IF err = NoError
                                    THEN [message |-> "Max retries exceeded", status |-> 0]
                                    ELSE err))
         /\ served' = IF err # NoError THEN Broken ELSE served

\* The handler resumes after acquire() (line 438) and enters the loop.
Resume(r) ==
    /\ pc[r] = "acquired"
    /\ NoneDone
    /\ LoopHead(r, 0, NoError)
    /\ UNCHANGED <<config, req, delays, lastStatus, rejected, observed>>

\* await this.sleep(d) of the catch block (lines 405, 407); usage is the
\* usage map the catch block leaves.
Sleep(r, err, d, usage) ==
    /\ pc' = [pc EXCEPT ![r] = "sleeping"]
    /\ lastError' = [lastError EXCEPT ![r] = err]
    /\ sleepMs' = [sleepMs EXCEPT ![r] = d]
    /\ delays' = [delays EXCEPT ![r] =
                    Append(@, [ms |-> d, rate |-> err.message = "RATE_LIMITED"])]
    /\ keyUsageCount' = usage
    /\ served' = Broken
    /\ outbound' = [outbound EXCEPT ![r] = NoFetch]
    /\ UNCHANGED <<permits, waiting, imageRequest, attempt, usedKeys, apiKey, resp, calls,
                   acquired, released>>

\* Mutant of CatchBlock: a 401 drops the key's usage entry, as if the key
\* were invalid.
CatchBlockDrops401(r, err) ==
    LET d == BackoffDelay(err, attempt[r], maxRetries, retryDelay)
    IN  IF d >= 0
        THEN Sleep(r, err, d,
                   IF err.status = 401
                   THEN [k \in DOMAIN keyUsageCount \ {apiKey[r]} |-> keyUsageCount[k]]
                   ELSE keyUsageCount)
        ELSE /\ LoopHead(r, attempt[r] + 1, err)
             /\ delays' = delays

\* Mutant of CatchBlock: a failed attempt gives its key's usage back
\* before the sleep.
CatchBlockRefunds(r, err) ==
    LET d == BackoffDelay(err, attempt[r], maxRetries, retryDelay)
    IN  IF d >= 0
        THEN Sleep(r, err, d, [keyUsageCount EXCEPT ![apiKey[r]] = @ - 1])
        ELSE /\ LoopHead(r, attempt[r] + 1, err)
             /\ delays' = delays

\* The catch block of generateWithRetry (lines 399-409) for the error err
\* of the attempt: it sleeps, or falls through to the next iteration.
CatchBlock(r, err) ==
    LET d == BackoffDelay(err, attempt[r], maxRetries, retryDelay)
    IN  IF d >= 0
        THEN Sleep(r, err, d, keyUsageCount)
        ELSE /\ LoopHead(r, attempt[r] + 1, err)
             /\ delays' = delays

\* The upstream call of the request ends (lines 364-379, 397-409).
UpstreamRespond(r) ==
    /\ pc[r] = "calling"
    /\ NoneDone
    /\ \E st \in UpstreamOutcomes :
        /\ lastStatus' = [lastStatus EXCEPT ![r] = st]
        /\ rejected' = IF observed /\ st \in {400, 403}
                       THEN rejected \cup {apiKey[r]}
                       ELSE rejected
        /\ IF ResponseOk(st)
           THEN /\ Finish(r, [status |-> 200, type |-> "none", message |-> "none"])
                /\ delays' = delays
                /\ served' = served
           ELSE CatchBlock(r, Classify(st))
    /\ UNCHANGED <<config, req, observed>>

\* The timer of sleep() fires and the loop goes on (line 386).
SleepDone(r) ==
    /\ pc[r] = "sleeping"
    /\ NoneDone
    /\ LoopHead(r, attempt[r] + 1, lastError[r])
    /\ UNCHANGED <<config, req, delays, lastStatus, rejected, observed>>

\* The response of a returned handler is written to the client and the
\* request's objects are dropped.  Delivery touches no state of the proxy,
\* so taking it before any other step loses no behaviour of the proxy.
Deliver(r) ==
    /\ pc[r] = "done"
    /\ pc' = [pc EXCEPT ![r] = "closed"]
    /\ req' = [req EXCEPT ![r] = NoRequest]
    /\ imageRequest' = [imageRequest EXCEPT ![r] = Unread]
    /\ resp' = [resp EXCEPT ![r] = NoResponse]
    /\ calls' = [calls EXCEPT ![r] = << >>]
    /\ delays' = [delays EXCEPT ![r] = << >>]
    /\ lastStatus' = [lastStatus EXCEPT ![r] = NoStatus]
    /\ acquired' = [acquired EXCEPT ![r] = 0]
    /\ released' = [released EXCEPT ![r] = 0]
    /\ UNCHANGED <<config, shared, attempt, usedKeys, apiKey, lastError, sleepMs, outbound,
                   rejected, observed, served>>

Next ==
    \E r \in Reqs :
        \/ Arrive(r)
        \/ ParseBody(r)
        \/ Resume(r)
        \/ UpstreamRespond(r)
        \/ SleepDone(r)
        \/ Deliver(r)

Spec == Init /\ [][Next]_vars

\* The same program, with the rejected keys recorded.
SpecObserved == InitObserved /\ [][Next]_vars

\* ------------------------------------- the selection loop, call by call
\* The while loop of lines 389-391 is synchronous code: while a handler is
\* in it, no other handler, timer or delivery runs.  SpecLoop is the same
\* program with that loop taken one getNextApiKey call at a time, for key
\* lists that may repeat a key.
NoneSelecting == \A q \in Reqs : pc[q] # "selecting"

\* The condition of the while loop (line 389).
SelectsAgain(keys, used, key) == key \in used /\ Cardinality(used) < Len(keys)

\* The head of the for loop with attempt = a and lastError = err, up to
\* the while loop (lines 386-388), or the throw after the for loop
\* (line 411).
BeginAttempt(r, a, err) ==
    IF LoopContinues(a, maxRetries)
    THEN LET n == getNextApiKey(geminiApiKeys, keyUsageCount)
         IN  /\ keyUsageCount' = n.usage
             /\ apiKey' = [apiKey EXCEPT ![r] = n.key]
             /\ usedKeys' = [usedKeys EXCEPT ![r] =
                                IF Cardinality(@) >= Len(geminiApiKeys) THEN {} ELSE @]
             /\ attempt' = [attempt EXCEPT ![r] = a]
             /\ lastError' = [lastError EXCEPT ![r] = err]
             /\ sleepMs' = [sleepMs EXCEPT ![r] = 0]
             /\ pc' = [pc EXCEPT ![r] = "selecting"]
             /\ UNCHANGED <<permits, waiting, imageRequest, outbound, resp, calls, served,
                            acquired, released>>
    ELSE /\ Finish(r, ErrorResponse(IF err = NoError
                                    THEN [message |-> "Max retries exceeded", status |-> 0]
                                    ELSE err))
         /\ served' = IF err # NoError THEN Broken ELSE served

\* The handler resumes after acquire() (line 438) and enters the for loop.
Enter(r) ==
    /\ pc[r] = "acquired"
    /\ NoneDone
    /\ BeginAttempt(r, 0, NoError)
    /\ UNCHANGED <<config, req, delays, lastStatus, rejected, observed>>

\* The timer of sleep() fires and the for loop goes on (line 386).
Wake(r) ==
    /\ pc[r] = "sleeping"
    /\ NoneDone
    /\ BeginAttempt(r, attempt[r] + 1, lastError[r])
    /\ UNCHANGED <<config, req, delays, lastStatus, rejected, observed>>

\* One iteration of the while loop (line 390).
SelectAgain(r) ==
    /\ pc[r] = "selecting"
    /\ SelectsAgain(geminiApiKeys, usedKeys[r], apiKey[r])
    /\ LET n == getNextApiKey(geminiApiKeys, keyUsageCount)
       IN  /\ keyUsageCount' = n.usage
           /\ apiKey' = [apiKey EXCEPT ![r] = n.key]
    /\ UNCHANGED <<config, permits, waiting, pc, req, imageRequest, attempt, usedKeys,
                   lastError, sleepMs, outbound, resp, history>>

\* The while loop ends: usedKeys.add(apiKey) and the fetch of
\* generateImage (lines 392-396, 345-368).
KeyChosen(r) ==
    /\ pc[r] = "selecting"
    /\ ~SelectsAgain(geminiApiKeys, usedKeys[r], apiKey[r])
    /\ LET g == generateImage(imageRequest[r])
       IN  /\ outbound' = [outbound EXCEPT ![r] = g.sent]
           /\ imageRequest' = [imageRequest EXCEPT ![r] = g.original]
    /\ usedKeys' = [usedKeys EXCEPT ![r] = @ \cup {apiKey[r]}]
    /\ pc' = [pc EXCEPT ![r] = "calling"]
    /\ calls' = [calls EXCEPT ![r] = Append(@, apiKey[r])]
    /\ served' = IF lastError[r] # NoError \/ served = Broken
                  THEN Broken
                  ELSE Append(served, apiKey[r])
    /\ UNCHANGED <<config, shared, req, attempt, apiKey, lastError, sleepMs, resp, delays,
                   lastStatus, rejected, observed, acquired, released>>

\* A step of the selection loop of request r.
LoopStep(r) == SelectAgain(r) \/ KeyChosen(r)

\* A step of the handler of request r outside the selection loop; the
\* event loop runs it only while no handler is inside that loop.
HandlerStep(r) ==
    /\ NoneSelecting
    /\ \/ ParseBody(r)
       \/ Enter(r)
       \/ UpstreamRespond(r)
       \/ Wake(r)
       \/ Deliver(r)

\* A request arrives, one of at most LoopReqs.
ArriveLoop(r) == r <= LoopReqs /\ NoneSelecting /\ Arrive(r)

InitLoop ==
    /\ Start(FALSE, AnyKeyLists)
    /\ proxyAuthKeys = {}

NextLoop == \E r \in Reqs : ArriveLoop(r) \/ HandlerStep(r) \/ LoopStep(r)

\* Every continuation that is ready runs, every upstream call ends and
\* every timer fires; no request has to arrive.
SpecLoop ==
    /\ InitLoop
    /\ [][NextLoop]_vars
    /\ \A r \in Reqs : WF_vars(HandlerStep(r)) /\ WF_vars(LoopStep(r))

\* ================================================================ claims
\* The requests whose upstream call is in flight.
InFlight == {r \in Reqs : pc[r] = "calling"}
\* The requests between their call of acquire() and their release().
InSemaphore(r) == pc[r] \in {"waiting", "acquired", "calling", "sleeping"}
LastCall(r) == calls[r][Len(calls[r])]

\* C1: the number of upstream calls in flight never exceeds maxConcurrent.
C1_ConcurrencyCeiling == Cardinality(InFlight) <= maxConcurrent

\* C1 witness: as many calls in flight as permits, more than one, and a
\* further request queued behind them.
C1_Witness ==
    /\ maxConcurrent > 1
    /\ Cardinality(InFlight) = maxConcurrent
    /\ Len(waiting) > 0

\* C2: a request that acquired a permit has released it exactly once when
\* its response is returned, never more often than it acquired; with no
\* request between acquire() and release() every permit is available.
C2_PermitReleasedOnce ==
    /\ \A r \in Reqs : acquired[r] \in {0, 1} /\ released[r] <= acquired[r]
    /\ \A r \in Reqs : pc[r] = "done" => released[r] = acquired[r]
    /\ \A r \in Reqs : pc[r] \in {"acquired", "calling", "sleeping"} =>
            acquired[r] = 1 /\ released[r] = 0
    /\ (\A r \in Reqs : ~InSemaphore(r)) => permits = maxConcurrent

\* C2 witness: a request that failed after its retries has returned, it
\* released its permit, and no request is in the semaphore.
C2_Witness ==
    \E r \in Reqs :
        /\ pc[r] = "done"
        /\ acquired[r] = 1
        /\ released[r] = 1
        /\ resp[r].status = 500
        /\ \A q \in Reqs : ~InSemaphore(q)
        /\ permits = maxConcurrent

\* C3 (as claimed, under SpecObserved): a key that an upstream call
\* answered 400 or 403 is never the key of a later upstream call.
C3_RejectedKeyNeverSelected ==
    [][\A r \in Reqs :
          Len(calls'[r]) > Len(calls[r]) => calls'[r][Len(calls'[r])] \notin rejected]_vars

\* C4: after a 401 the key of that call is still in the key list and still
\* has its usage count, which counts at least that call.
C4_UnauthorizedKeyKept ==
    \A r \in Reqs :
        (pc[r] \in {"sleeping", "done"} /\ lastStatus[r] = 401) =>
            /\ LastCall(r) \in KeySet(geminiApiKeys)
            /\ LastCall(r) \in DOMAIN keyUsageCount
            /\ keyUsageCount[LastCall(r)] >= 1

\* C4 witness: the attempt after a 401 calls upstream with the same key.
C4_Witness ==
    \E r \in Reqs :
        /\ pc[r] = "calling"
        /\ lastStatus[r] = 401
        /\ Len(calls[r]) >= 2
        /\ calls[r][Len(calls[r])] = calls[r][Len(calls[r]) - 1]
        /\ Len(geminiApiKeys) = 2

\* C5: the wait after a 429 at attempt index i is retryDelay * 2^i, every
\* attempt before the current one was followed by a wait, and a request
\* whose last outcome is a 429 fails only after maxRetries attempts, with
\* the rate-limit error.
C5_RateLimitBackoff ==
    \A r \in Reqs :
        /\ (pc[r] = "sleeping" /\ lastStatus[r] = 429) =>
                /\ sleepMs[r] = retryDelay * (2 ^ attempt[r])
                /\ Len(delays[r]) = attempt[r] + 1
        /\ \A i \in DOMAIN delays[r] :
                delays[r][i].rate => delays[r][i].ms = retryDelay * (2 ^ (i - 1))
        /\ pc[r] = "calling" => Len(delays[r]) = attempt[r] /\ Len(calls[r]) = attempt[r] + 1
        /\ (pc[r] = "done" /\ lastStatus[r] = 429) =>
                /\ Len(calls[r]) = maxRetries
                /\ resp[r] = [status |-> 500, type |-> "api_error", message |-> "RATE_LIMITED"]

\* C5 witness: one key, maxRetries = 3, every attempt answered 429: three
\* calls, waits of retryDelay and 2 * retryDelay between them (and one of
\* 4 * retryDelay after the third), then the RATE_LIMITED failure.
C5_Witness ==
    \E r \in Reqs :
        /\ Len(geminiApiKeys) = 1
        /\ maxRetries = 3
        /\ pc[r] = "done"
        /\ Len(calls[r]) = 3
        /\ delays[r] = <<[ms |-> retryDelay, rate |-> TRUE],
                         [ms |-> 2 * retryDelay, rate |-> TRUE],
                         [ms |-> 4 * retryDelay, rate |-> TRUE]>>
        /\ resp[r].message = "RATE_LIMITED"

C7_MissingFieldRejected ==
    [][\A r \in Reqs :
          (/\ pc[r] = "parsing"
           /\ imageRequest'[r].json
           /\ ("model" \notin imageRequest'[r].fields \/ "prompt" \notin imageRequest'[r].fields))
          => /\ pc'[r] = "done"
             /\ resp'[r].status = 400
             /\ resp'[r].type = "invalid_request_error"
             /\ acquired'[r] = 0
             /\ calls'[r] = << >>
             /\ UNCHANGED <<permits, waiting, keyUsageCount>>]_vars

\* C7 witness: a body with model and without prompt was answered 400.
C7_Witness ==
    \E r \in Reqs :
        /\ pc[r] = "done"
        /\ imageRequest[r] = [json |-> TRUE, fields |-> {"model"}]
        /\ resp[r].status = 400
        /\ permits = maxConcurrent

\* The claim's bad header: absent, not 'Bearer <token>', or an unknown token.
BadAuth(h) ==
    IF Len(h) = 0 THEN TRUE
    ELSE IF Len(h) < 2 THEN TRUE
    ELSE h[1] # "Bearer" \/ h[2] \notin proxyAuthKeys

\* C8: with a non-empty token set a request that is not OPTIONS and has a
\* bad Authorization header is answered 401 auth_error on arrival, without
\* a permit, a key selection or an upstream call; every other request is
\* not answered auth_error (with an empty token set, none is).
C8_AuthRequired ==
    [][\A r \in Reqs :
          (pc[r] = "idle" /\ pc'[r] # "idle") =>
              IF proxyAuthKeys # {} /\ req'[r].method # "OPTIONS" /\ BadAuth(req'[r].auth)
              THEN /\ pc'[r] = "done"
                   /\ resp'[r].status = 401
                   /\ resp'[r].type = "auth_error"
                   /\ acquired'[r] = 0
                   /\ calls'[r] = << >>
                   /\ UNCHANGED <<permits, waiting, keyUsageCount>>
              ELSE resp'[r].type # "auth_error" /\ resp'[r].status # 401]_vars

\* C8 witness: a POST to the endpoint with the right token under the wrong
\* scheme was answered 401.
C8_Witness ==
    \E r \in Reqs :
        /\ pc[r] = "done"
        /\ req[r] = [method |-> "POST", auth |-> <<"Basic", GoodToken>>, path |-> GenPath]
        /\ resp[r].status = 401
        /\ resp[r].type = "auth_error"

\* The pool of the claim is empty: every configured key was answered 400
\* or 403.
PoolExhausted == KeySet(geminiApiKeys) \subseteq rejected

\* C9 (as claimed, under SpecObserved): a request whose body is read while the pool is empty
\* acquires no permit and queues for none (so it makes no upstream call),
\* and with a complete body it is answered 503.
C9_EmptyPoolAnswers503 ==
    [][\A r \in Reqs :
          PoolExhausted =>
              /\ pc[r] = "parsing" => pc'[r] \in {"parsing", "done"}
              /\ (pc[r] = "parsing" /\ imageRequest'[r] = FullBody) => resp'[r].status = 503]_vars

\* C10: a release() with waiters leaves permits at 0 and resolves the
\* acquire() of the first waiter and of no other; acquire() queues its
\* caller at the end, and a caller of acquire() that finds permits at 0
\* gets no permit.
C10_DirectHandOff ==
    [][\A r \in Reqs :
          /\ (released'[r] > released[r] /\ Len(waiting) > 0) =>
                /\ permits = 0
                /\ permits' = 0
                /\ waiting' = Tail(waiting)
                /\ pc[Head(waiting)] = "waiting"
                /\ pc'[Head(waiting)] = "acquired"
                /\ \A q \in Reqs : (q # Head(waiting) /\ pc[q] = "waiting") => pc'[q] = "waiting"
          /\ (pc[r] = "parsing" /\ pc'[r] = "waiting") => waiting' = Append(waiting, r)
          /\ (pc[r] = "parsing" /\ pc'[r] # "parsing" /\ permits = 0) =>
                pc'[r] # "acquired" /\ permits' = 0]_vars

\* C10 witness: a release has just handed the only permit to the first of
\* two waiters; the second still waits and permits is 0.
C10_Witness ==
    \E h, w, l \in Reqs :
        /\ maxConcurrent = 1
        /\ pc[h] = "done" /\ released[h] = 1
        /\ pc[w] = "acquired"
        /\ pc[l] = "waiting"
        /\ waiting = <<l>>
        /\ permits = 0

\* The sum of the usage counts: the number of getNextApiKey calls so far.
RECURSIVE SumOver(_, _)
SumOver(usage, ks) ==
    IF ks = {} THEN 0
    ELSE LET k == CHOOSE x \in ks : TRUE IN usage[k] + SumOver(usage, ks \ {k})
TotalUsage(usage) == SumOver(usage, DOMAIN usage)

\* The key the claim names: the smallest usage count, the first in the
\* order of the key list among equals.
LeastUsedFirst(keys, usage) ==
    keys[CHOOSE i \in 1..Len(keys) :
            \A j \in 1..Len(keys) :
                /\ usage[keys[i]] <= usage[keys[j]]
                /\ j < i => usage[keys[j]] > usage[keys[i]]]

\* The usage map after n calls that each add one to LeastUsedFirst and
\* leave every other count alone.
RECURSIVE AfterCalls(_, _, _)
AfterCalls(keys, usage, n) ==
    IF n = 0 THEN usage
    ELSE AfterCalls(keys,
                    [usage EXCEPT ![LeastUsedFirst(keys, usage)] = @ + 1],
                    n - 1)

\* C11: in every step that calls getNextApiKey (n calls, by the growth of
\* the usage sum), each call in turn adds one to the least-used key, the
\* first in list order among equals, and changes no other count; the key
\* the last of these calls returned is the key of the upstream call made.
C11_LeastUsedFirst ==
    [][IF keyUsageCount' = keyUsageCount
       THEN \A r \in Reqs : Len(calls'[r]) <= Len(calls[r])
       ELSE LET n == TotalUsage(keyUsageCount') - TotalUsage(keyUsageCount)
            IN  /\ n >= 1
                /\ keyUsageCount' = AfterCalls(geminiApiKeys, keyUsageCount, n)
                /\ \A r \in Reqs :
                      Len(calls'[r]) > Len(calls[r]) =>
                         calls'[r][Len(calls'[r])] =
                             LeastUsedFirst(geminiApiKeys,
                                            AfterCalls(geminiApiKeys, keyUsageCount, n - 1))]_vars

\* C11 witness: two keys with equal usage above 0, and the call just made
\* went to the first of them.
C11_Witness ==
    \E r \in Reqs :
        /\ Len(geminiApiKeys) = 2
        /\ pc[r] = "calling"
        /\ apiKey[r] = geminiApiKeys[1]
        /\ keyUsageCount[geminiApiKeys[1]] = 2
        /\ keyUsageCount[geminiApiKeys[2]] = 1

\* The largest difference between two usage counts.
Spread(usage) ==
    CHOOSE d \in 0..(TotalUsage(usage) + 1) :
        /\ \E j, k \in DOMAIN usage : usage[j] - usage[k] = d
        /\ \A j, k \in DOMAIN usage : usage[j] - usage[k] <= d

\* C12: while every upstream call so far succeeded (each request then
\* made one call) and the calls are no more than the keys, the calls
\* went to pairwise distinct keys, each key was counted at most once, and
\* the usage counts differ by at most 1.
C12_SuccessesSpreadOverKeys ==
    (served # Broken /\ Len(served) <= Len(geminiApiKeys)) =>
        /\ \A i, j \in DOMAIN served : i # j => served[i] # served[j]
        /\ \A k \in DOMAIN keyUsageCount : keyUsageCount[k] <= 1
        /\ Spread(keyUsageCount) <= 1

\* C12 witness: two keys, two requests served by upstream without any
\* failure, each key used once.
C12_Witness ==
    /\ Len(geminiApiKeys) = 2
    /\ served = <<geminiApiKeys[1], geminiApiKeys[2]>>
    /\ \E r, q \in Reqs : pc[r] = "closed" /\ pc[q] = "done" /\ resp[q].status = 200
    /\ \A k \in DOMAIN keyUsageCount : keyUsageCount[k] = 1

\* The request has returned a failure of generateWithRetry.
FailedUpstream(r) == pc[r] = "done" /\ released[r] = 1 /\ resp[r].status # 200

\* C13 (as claimed): a request that failed is answered with the error
\* envelope, with the status of the upstream response behind its last
\* error (429, 401, 5xx or the other upstream status) and with 500 when
\* the error has none (fetch failed, no attempt made).
C13_FailureStatusFromError ==
    \A r \in Reqs :
        FailedUpstream(r) =>
            /\ resp[r].type = "api_error"
            /\ resp[r].status = IF lastStatus[r] > 0 THEN lastStatus[r] ELSE 500

\* C14: the body of every fetch made for a request whose body has a seed
\* (the first attempt and every retry) has no seed and has every other
\* field of the request; the request object is the same at every attempt.
C14_SeedNeverForwarded ==
    [][\A r \in Reqs :
          /\ (pc'[r] = "calling" /\ "seed" \in imageRequest'[r].fields) =>
                /\ "seed" \notin outbound'[r]
                /\ (imageRequest'[r].fields \ {"seed"}) \subseteq outbound'[r]
          /\ (InSemaphore(r) /\ pc'[r] # "closed") => imageRequest'[r] = imageRequest[r]
          /\ (pc[r] = "parsing" /\ pc'[r] = "done") => outbound'[r] = NoFetch]_vars

\* C14 witness: the third fetch of a request whose body has seed and size
\* is in flight, with size and without seed.
C14_Witness ==
    \E r \in Reqs :
        /\ pc[r] = "calling"
        /\ Len(calls[r]) = 3
        /\ imageRequest[r].fields = {"model", "prompt", "seed", "size"}
        /\ outbound[r] = {"model", "prompt", "size", "response_format"}

FlatKinds == UpstreamOutcomes \ {200, 429}

FailsAuth(rq) == proxyAuthKeys # {} /\ BadAuth(rq.auth)
\* The request is not a POST to the endpoint.
FailsPath(rq) == rq.method # "POST" \/ rq.path # GenPath
\* The step takes no permit, queues no waiter and selects no key.
TouchesNothing == UNCHANGED <<permits, waiting, keyUsageCount, acquired, calls>>

\* C17: the first failing check alone decides the response.  On arrival:
\* OPTIONS is answered 204 whatever its header and path; otherwise a
\* failed auth check is answered 401 whatever the path; otherwise a wrong
\* method or path is answered 404; otherwise the body is read.  A body
\* without model or prompt is answered 400.  None of these steps touches
\* the semaphore, and a request takes or queues for a permit only in the
\* step that read a body with model and prompt, having passed the checks
\* before.
C17_ChecksInOrder ==
    [][\A r \in Reqs :
          /\ (pc[r] = "idle" /\ pc'[r] # "idle") =>
                /\ TouchesNothing
                /\ IF req'[r].method = "OPTIONS"
                   THEN pc'[r] = "done" /\ resp'[r].status = 204
                   ELSE IF FailsAuth(req'[r])
                   THEN pc'[r] = "done" /\ resp'[r].status = 401
                   ELSE IF FailsPath(req'[r])
                   THEN pc'[r] = "done" /\ resp'[r].status = 404
                   ELSE pc'[r] = "parsing" /\ resp'[r] = NoResponse
          /\ (pc[r] = "parsing" /\ pc'[r] # "parsing") =>
                /\ req[r].method = "POST" /\ req[r].path = GenPath /\ ~FailsAuth(req[r])
                /\ IF ~imageRequest'[r].json
                   THEN pc'[r] = "done" /\ resp'[r].status = 500 /\ TouchesNothing
                   ELSE IF MissingFields(imageRequest'[r])
                   THEN pc'[r] = "done" /\ resp'[r].status = 400 /\ TouchesNothing
                   ELSE /\ pc'[r] \in {"acquired", "waiting"}
                        /\ pc'[r] = "acquired" <=> permits > 0
          /\ (~InSemaphore(r) /\ InSemaphore(r)') =>
                pc[r] = "parsing" /\ ~MissingFields(imageRequest'[r])]_vars

\* C17 witness: a request without Authorization header to an unknown
\* path was answered 401, not 404.
C17_Witness ==
    \E r \in Reqs :
        /\ pc[r] = "done"
        /\ proxyAuthKeys # {}
        /\ req[r] = [method |-> "POST", auth |-> << >>, path |-> "/other"]
        /\ resp[r].status = 401

\* The round of the i-th attempt of a request: the used set is cleared
\* after every Len(geminiApiKeys) attempts.
Round(i) == (i - 1) \div Len(geminiApiKeys)

\* C18: the attempts of one request within one round of the used set use
\* pairwise distinct keys, so the first min(maxRetries, number of keys)
\* attempts do; the used set of a request in the loop is the set of the
\* keys of its current round, and it is cleared only when it held every
\* key.
C18_DistinctKeysPerRequest ==
    [][\A r \in Reqs :
          /\ \A i, j \in DOMAIN calls'[r] :
                (i # j /\ Round(i) = Round(j)) => calls'[r][i] # calls'[r][j]
          /\ pc'[r] = "calling" =>
                usedKeys'[r] = {calls'[r][i] : i \in {j \in DOMAIN calls'[r] :
                                                        Round(j) = Round(Len(calls'[r]))}}
          /\ (pc[r] = "sleeping" /\ pc'[r] = "calling"
                /\ ~(usedKeys[r] \subseteq usedKeys'[r])) =>
                usedKeys[r] = KeySet(geminiApiKeys)]_vars

\* C18 witness: the rotation offered a request the key of its first
\* attempt again (the other key went to another request meanwhile); the
\* request selected once more and its second call uses the other key, so
\* the usage counts count one selection more than the calls made.
C18_Witness ==
    \E r, q \in Reqs :
        /\ r # q
        /\ Len(geminiApiKeys) = 2
        /\ pc[r] = "calling" /\ pc[q] = "calling"
        /\ \A o \in Reqs \ {r, q} : pc[o] = "idle"
        /\ calls[r] = <<geminiApiKeys[1], geminiApiKeys[2]>>
        /\ calls[q] = <<geminiApiKeys[2]>>
        /\ TotalUsage(keyUsageCount) = 4

\* The requests that hold a permit: acquire() has resolved for them and
\* they have not yet called release().
Holders == {r \in Reqs : pc[r] \in {"acquired", "calling", "sleeping"}}

\* C19: permits is between 0 and maxConcurrent; permits plus the permits
\* held is maxConcurrent; no request has released more often than its
\* acquire() completed; waiting is non-empty only with permits at 0, and
\* it holds exactly the requests suspended in acquire(), each once.
C19_SemaphoreInvariant ==
    /\ permits >= 0
    /\ permits <= maxConcurrent
    /\ permits + Cardinality(Holders) = maxConcurrent
    /\ \A r \in Reqs : released[r] <= acquired[r]
    /\ \A r \in Holders : acquired[r] = released[r] + 1
    /\ Len(waiting) > 0 => permits = 0
    /\ {waiting[i] : i \in DOMAIN waiting} = {r \in Reqs : pc[r] = "waiting"}
    /\ \A i, j \in DOMAIN waiting : i # j => waiting[i] # waiting[j]

\* C19 witness: both of two permits are held, one by a request that
\* sleeps between attempts, a third request waits, and permits is 0.
C19_Witness ==
    \E a, b, c \in Reqs :
        /\ maxConcurrent = 2
        /\ pc[a] = "sleeping"
        /\ pc[b] = "calling"
        /\ waiting = <<c>>
        /\ permits = 0

\* Every key of the list has a usage count and the counts differ by at
\* most 1.
Balanced(usage) ==
    /\ DOMAIN usage = KeySet(geminiApiKeys)
    /\ \A j, k \in DOMAIN usage : usage[j] >= 0 /\ usage[j] - usage[k] <= 1

\* C20: before and after every step (arrivals, successes, failed attempts,
\* retries, re-selections, in any interleaving) every key of the list has
\* a usage count and the largest and smallest counts differ by at most 1;
\* no step decreases a count.
C20_UsageBalancedAndGrowing ==
    [][/\ Balanced(keyUsageCount)
       /\ \/ keyUsageCount' = keyUsageCount
          \/ /\ Balanced(keyUsageCount')
             /\ \A k \in DOMAIN keyUsageCount : keyUsageCount'[k] >= keyUsageCount[k]]_vars

\* C20 witness: two keys with different counts, five selections made, a
\* request at its third attempt after two failures.
C20_Witness ==
    \E r \in Reqs :
        /\ Len(geminiApiKeys) = 2
        /\ pc[r] = "calling"
        /\ Len(calls[r]) = 3
        /\ TotalUsage(keyUsageCount) = 5
        /\ Spread(keyUsageCount) = 1

\* The number of upstream calls with key k that the step issues.
IssuedWith(k) ==
    Cardinality({r \in Reqs : /\ Len(calls'[r]) > Len(calls[r])
                              /\ calls'[r][Len(calls'[r])] = k})

\* The request whose upstream call the step issues.
Issuing(r) == Len(calls'[r]) > Len(calls[r])

\* C21 (as claimed): every step adds to the usage count of a key exactly
\* the number of upstream calls it issues with that key, so that a count
\* always equals the calls issued with its key.
C21_UsageCountsCalls ==
    [][\A k \in KeySet(geminiApiKeys) :
          keyUsageCount'[k] - keyUsageCount[k] = IssuedWith(k)]_vars

\* C21 (amended): a step issues at most one upstream call and adds at most
\* one to a count; the key of the call it issues is counted once; a key
\* counted without a call is one the issuing request had in its used set
\* (the selection the while loop discarded); a step that issues no call
\* changes no count.
C21_UsageCountsSelections ==
    [][/\ Cardinality({r \in Reqs : Issuing(r)}) <= 1
       /\ \A k \in KeySet(geminiApiKeys) :
             /\ keyUsageCount'[k] - keyUsageCount[k] \in {0, 1}
             /\ keyUsageCount'[k] - keyUsageCount[k] >= IssuedWith(k)
             /\ (keyUsageCount'[k] # keyUsageCount[k] /\ IssuedWith(k) = 0) =>
                   \E r \in Reqs : /\ Issuing(r)
                                    /\ k \in usedKeys[r]
                                    /\ k \in usedKeys'[r]
                                    /\ Cardinality(usedKeys[r]) < Len(geminiApiKeys)]_vars

\* C21 witness: a request has been served with the second key at its
\* second attempt after the rotation offered it its first key again; the
\* first key is counted twice and was called once.
C21_Witness ==
    \E r, q \in Reqs :
        /\ r # q
        /\ Len(geminiApiKeys) = 2
        /\ pc[r] = "done" /\ resp[r].status = 200
        /\ calls[r] = <<geminiApiKeys[1], geminiApiKeys[2]>>
        /\ pc[q] = "calling" /\ calls[q] = <<geminiApiKeys[2]>>
        /\ \A o \in Reqs \ {r, q} : pc[o] = "idle"
        /\ keyUsageCount[geminiApiKeys[1]] = 2
        /\ keyUsageCount[geminiApiKeys[2]] = 2

\* C22 (as claimed, under SpecLoop): a request in the selection loop of an
\* attempt leaves it: the attempt proceeds to its upstream call.
C22_SelectionLoopEnds ==
    \A r \in Reqs : (pc[r] = "selecting") ~> (pc[r] = "calling")

\* C23 (as claimed, under SpecLoop): a request suspended in acquire() gets
\* its permit, and a request that called acquire() returns a response
\* with its permit released.
C23_EveryRequestReturns ==
    \A r \in Reqs :
        /\ (pc[r] = "waiting") ~> (pc[r] # "waiting" /\ acquired[r] = 1)
        /\ (pc[r] \in {"waiting", "acquired", "selecting", "calling", "sleeping"})
              ~> (pc[r] = "done" /\ released[r] = 1)

====
